---------------------------- MODULE Spec2Model ----------------------------
(***************************************************************************)
(* A model of hangman-rs (src/main.rs): one CLI invocation resolves the    *)
(* configuration (main, lines 331-378), makes sure the savefile exists     *)
(* (lines 380-393) and dispatches to a subcommand handler (lines 395-424); *)
(* handle_new (lines 205-265) chooses a word, normalizes it and rewrites   *)
(* the savefile.  The file system outlives an invocation, so the model     *)
(* runs invocations one after the other over the same savefiles.           *)
(*                                                                         *)
(* Text is a sequence of one-character strings.  An Option is a sequence   *)
(* of length at most one: None == <<>>, Some(x) == <<x>>.  A TOML document *)
(* is a function from its keys to Options (<<>>: the key is not there).    *)
(***************************************************************************)
EXTENDS Naturals, Sequences, FiniteSets

VARIABLES
    pc,                    \* position of the running process ("idle": none)
    cli,                   \* Cli: config, subcommand, file (lines 18-76)
    env,                   \* HANGMAN_CONFIG: Option of a path (line 348)
    figment,               \* main's figment (line 332)
    using_default_config,  \* main's flag (line 331)
    config,                \* result of figment.extract::<Config>() (line 375)
    savefile,              \* main's resolved savefile path (line 374)
    fs,                    \* the file system at the savefile paths
    dirs,                  \* the directories that exist among ParentDirs
    wordfile,              \* the text of the wordlist file words.txt
    random_word,           \* handle_new's random_word (line 207)
    loaded,                \* handle_new's savefile record (line 245)
    status,                \* exit status of the process, Option
    fs0                    \* fs when the invocation started (history)

vars == <<pc, cli, env, figment, using_default_config, config, savefile, fs, dirs,
          wordfile, random_word, loaded, status, fs0>>

None == <<>>
Some(x) == <<x>>

-----------------------------------------------------------------------------
(* Bounds of the model *)

\* Longest wordlist text drawn exhaustively in SpecWord.
MaxLen == 4

-----------------------------------------------------------------------------
(* Text: str::lines and str::trim_matches *)

LB == "["
RB == "]"
QT == "\""
NL == "\n"

\* The characters wordlist texts are drawn from (line feeds only, no "\r").
Alphabet == {"a", LB, RB, QT, NL}

\* All texts over Alphabet of length at most n.
RECURSIVE TextsUpTo(_)
TextsUpTo(n) ==
    IF n = 0 THEN {<<>>}
    ELSE LET shorter == TextsUpTo(n - 1)
         IN  shorter \cup {Append(t, c) : t \in {u \in shorter : Len(u) = n - 1}, c \in Alphabet}

\* The closure of line 240: |x| x == '[' || x == ']' || x == '"'.
IsTrimChar(x) == x = LB \/ x = RB \/ x = QT

RECURSIVE TrimStart(_)
TrimStart(s) ==
    IF s # <<>> /\ IsTrimChar(Head(s)) THEN TrimStart(Tail(s)) ELSE s

RECURSIVE TrimEnd(_)
TrimEnd(s) ==
    IF s # <<>> /\ IsTrimChar(s[Len(s)]) THEN TrimEnd(SubSeq(s, 1, Len(s) - 1)) ELSE s

\* A faulty variant: trim_start_matches, the suffix stays.
OnlyTrimStart(s) == TrimStart(s)

\* str::trim_matches (line 240): strips the matching prefix and suffix.
TrimMatches(s) == TrimEnd(TrimStart(s))

\* Index of the first line feed of s, 0 when there is none.
FirstNL(s) ==
    IF \E i \in 1..Len(s) : s[i] = NL
    THEN CHOOSE i \in 1..Len(s) : s[i] = NL /\ \A j \in 1..(i - 1) : s[j] # NL
    ELSE 0

\* str::lines (line 220) on text with "\n" line ends: the text is cut after
\* each line feed, the line feed is dropped, and a text that ends with a
\* line feed has no empty last line.
RECURSIVE Lines(_)
Lines(s) ==
    IF s = <<>> THEN <<>>
    ELSE LET i == FirstNL(s)
         IN  IF i = 0 THEN <<s>>
             ELSE <<SubSeq(s, 1, i - 1)>> \o Lines(SubSeq(s, i + 1, Len(s)))

-----------------------------------------------------------------------------
(* Paths *)

\* The default paths of Config::default on a build that is not for Windows
\* (lines 102-109), with HOME set and written as ~.
DefaultSavefilePath == "~/.config/hangman_current_game.toml"
DefaultLogfilePath == "~/.config/hangman.log"

\* A savefile path a configuration file may name instead.
AltSavefilePath == "games/alt.toml"

\* The paths whose content the program may write.
SavePaths == {DefaultSavefilePath, AltSavefilePath}

\* The other paths of the model and what is found there; none is written.
StaticKind(p) ==
    CASE p \in {"cfg.toml", "env.toml", "cfg.txt"} -> "file"
      [] p \in {"words.txt", "empty.txt", "binary.dat"} -> "file"
      [] p \in {"confdir.toml", "wordsdir"} -> "dir"
      [] OTHER -> "absent"

\* Path::extension, as an Option.
Extension(p) ==
    CASE p \in {"cfg.toml", "env.toml", "missing.toml", "confdir.toml",
                DefaultSavefilePath, AltSavefilePath} -> Some("toml")
      [] p \in {"cfg.txt", "words.txt", "empty.txt", "missing.txt"} -> Some("txt")
      [] p = "binary.dat" -> Some("dat")
      [] OTHER -> None

\* Path::parent of the savefile paths (line 383).
Parent(p) == IF p = DefaultSavefilePath THEN "~/.config" ELSE "games"
ParentDirs == {Parent(p) : p \in SavePaths}

KindIn(f, p) == IF p \in DOMAIN f THEN f[p].kind ELSE StaticKind(p)

\* Path::exists, Path::is_file and Path::is_dir on the file system f.
Exists(f, p) == KindIn(f, p) # "absent"
IsFile(f, p) == KindIn(f, p) = "file"
\* A faulty variant: the is_dir test of line 214 left out.
IsDirNever(f, p) == FALSE
IsDir(f, p) == KindIn(f, p) = "dir"

\* verify_toml_file (lines 267-269).
verify_toml_file(f, file) ==
    Exists(f, file) /\ IsFile(f, file) /\ Extension(file) = Some("toml")

-----------------------------------------------------------------------------
(* Config (lines 78-151) *)

DefaultStrikes == 8

\* impl Default for Config (lines 86-119).
ConfigDefault ==
    [wordlist |-> None,
     savefile |-> Some(DefaultSavefilePath),
     logfile  |-> Some(DefaultLogfilePath),
     strikes  |-> DefaultStrikes]

\* impl Provider for Config, data() (lines 126-150): every key is inserted,
\* an absent path as the string "None".
ConfigData(c) ==
    [wordlist |-> Some(IF c.wordlist = None THEN "None" ELSE c.wordlist[1]),
     savefile |-> Some(IF c.savefile = None THEN "None" ELSE c.savefile[1]),
     logfile  |-> Some(IF c.logfile = None THEN "None" ELSE c.logfile[1]),
     strikes  |-> Some(c.strikes)]

\* Figment::new().merge(Config::default()) (line 332).
FigmentOfDefaults ==
    [provider |-> "Config::default", path |-> None,
     wellformed |-> TRUE, doc |-> ConfigData(ConfigDefault)]

\* Figment::new().merge(Toml::file(path)) (lines 341, 355): the figment
\* holds the file's keys and nothing else.
FigmentOfFile(path, text) ==
    [provider |-> "Toml::file", path |-> Some(path),
     wellformed |-> text.wellformed, doc |-> text.doc]

\* figment.extract::<Config>() (line 375) with the derived Deserialize of
\* Config (lines 78-84): an Option field that is missing is None, the u8
\* field strikes is required, and text that is not TOML is an error.
ExtractConfig(f) ==
    IF f.wellformed /\ f.doc.strikes # None
    THEN [ok |-> TRUE,
          val |-> [wordlist |-> f.doc.wordlist, savefile |-> f.doc.savefile,
                   logfile |-> f.doc.logfile, strikes |-> f.doc.strikes[1]]]
    ELSE [ok |-> FALSE]

\* .savefile.unwrap_or(Config::default().savefile.unwrap()) (lines 377-378).
SavefileOf(c) ==
    IF c.savefile # None THEN c.savefile[1] ELSE ConfigDefault.savefile[1]

\* The texts a configuration file may hold: every subset of the four keys,
\* and one text that is not TOML.
ConfigTexts ==
    {[wellformed |-> TRUE,
      doc |-> [wordlist |-> w, savefile |-> s, logfile |-> l, strikes |-> k]] :
        w \in {None, Some("words.txt")}, s \in {None, Some(AltSavefilePath)},
        l \in {None, Some("my.log")}, k \in {None, Some(5)}}
    \cup {[wellformed |-> FALSE,
           doc |-> [wordlist |-> None, savefile |-> None, logfile |-> None, strikes |-> None]]}

-----------------------------------------------------------------------------
(* Savefile (lines 153-191) *)

SavefileDefaultStrikes == 8
NewGameStrikes == 8

\* impl Default for Savefile (lines 162-172).
SavefileDefault ==
    [word |-> <<>>, guessed |-> <<>>, correct |-> <<>>, incorrect |-> <<>>,
     strikes_left |-> SavefileDefaultStrikes]

\* A faulty variant: the loaded record with its word updated (line 251)
\* is the one written.
NewGameKeepsLists(word, old) == [old EXCEPT !.word = word]

\* The record handle_new writes (lines 254-260); the loaded record old is
\* not used.
NewGame(word, old) ==
    [word |-> word, guessed |-> <<>>, correct |-> <<>>, incorrect |-> <<>>,
     strikes_left |-> NewGameStrikes]

EmptyDoc ==
    [word |-> None, guessed |-> None, correct |-> None, incorrect |-> None,
     strikes_left |-> None]

\* toml::to_string(&Savefile) (lines 254, 388): every field is written.
SavefileToml(r) ==
    [word |-> Some(r.word), guessed |-> Some(r.guessed), correct |-> Some(r.correct),
     incorrect |-> Some(r.incorrect), strikes_left |-> Some(r.strikes_left)]

Absent == [kind |-> "absent", wellformed |-> TRUE, doc |-> EmptyDoc]
Directory == [kind |-> "dir", wellformed |-> TRUE, doc |-> EmptyDoc]
\* A file that was created and never written.
EmptyFile == [kind |-> "file", wellformed |-> TRUE, doc |-> EmptyDoc]
\* A file whose text is not TOML.
NotToml == [kind |-> "file", wellformed |-> FALSE, doc |-> EmptyDoc]
FileOf(r) == [kind |-> "file", wellformed |-> TRUE, doc |-> SavefileToml(r)]

\* A faulty variant: a savefile that does not load counts as the default.
ExtractSavefileOrDefault(e) == [ok |-> TRUE, val |-> SavefileDefault]

\* Figment::new().merge(Toml::file(path)).extract::<Savefile>() (lines
\* 245-247): no field of Savefile is optional (lines 153-160).
ExtractSavefile(e) ==
    IF e.kind = "file" /\ e.wellformed /\ \A k \in DOMAIN e.doc : e.doc[k] # None
    THEN [ok |-> TRUE,
          val |-> [word |-> e.doc.word[1], guessed |-> e.doc.guessed[1],
                   correct |-> e.doc.correct[1], incorrect |-> e.doc.incorrect[1],
                   strikes_left |-> e.doc.strikes_left[1]]]
    ELSE [ok |-> FALSE]

\* A game in progress, as a later version of the handlers would leave it.
GameInProgress ==
    [word |-> <<"a", "b">>, guessed |-> <<"a", "z">>, correct |-> <<"a">>,
     incorrect |-> <<"z">>, strikes_left |-> 7]

\* What may be found at a savefile path before the first invocation.
InitialEntries ==
    {Absent, Directory, EmptyFile, NotToml, FileOf(SavefileDefault), FileOf(GameInProgress)}

-----------------------------------------------------------------------------
(* The command line and the environment *)

Stubs == {"guess", "query", "save", "load", "show", "completions"}

\* Cli (lines 18-76).  The arguments the stub handlers only print are left
\* out; file is the --file of `new`.
CliConfigs == {None, Some("cfg.toml"), Some("missing.toml"), Some("cfg.txt"), Some("confdir.toml")}
NewFiles == {None, Some("words.txt"), Some("empty.txt"), Some("binary.dat"),
             Some("missing.txt"), Some("wordsdir")}
Clis ==
    {[config |-> c, sub |-> s, file |-> None] : c \in CliConfigs, s \in Stubs}
    \cup {[config |-> c, sub |-> "new", file |-> f] : c \in CliConfigs, f \in NewFiles}

\* std::env::var("HANGMAN_CONFIG") (line 348).
Envs == {None, Some("env.toml"), Some("missing.toml")}

\* What the remote word service may answer (lines 230-232); None: the
\* request failed.
ApiResponses == {None, Some(<<LB, QT, "a", QT, RB>>), Some(<<"a", RB, "a">>)}

\* The text of a wordlist file (line 218); None: read_to_string failed.
ReadWordlist(p, words) ==
    CASE p = "words.txt" -> Some(words)
      [] p = "empty.txt" -> Some(<<>>)
      [] OTHER -> None

\* How the operating system answers the calls that write (lines 384-392,
\* 252-264).
IoOutcomes == {"ok", "mkdir_failed", "create_failed", "write_failed"}

\* How a process ends: the exit code and the message that goes with it.
Ended(code, msg) == Some([code |-> code, msg |-> msg])

\* A panic (expect, unwrap, an empty range): exit code 101.
Panic(msg) ==
    /\ pc' = "exited"
    /\ status' = Ended("101", msg)

\* std::process::exit(1) (lines 213, 216).
Exit1(msg) ==
    /\ pc' = "exited"
    /\ status' = Ended("1", msg)

\* main or a handler returns.
Return ==
    /\ pc' = "exited"
    /\ status' = Ended("0", "")

NoLocals ==
    /\ figment' = None
    /\ using_default_config' = FALSE
    /\ config' = None
    /\ savefile' = None
    /\ random_word' = None
    /\ loaded' = None

-----------------------------------------------------------------------------
(* main (lines 321-425) *)

Init ==
    /\ pc = "idle"
    /\ cli = [config |-> None, sub |-> "show", file |-> None]
    /\ env = None
    /\ figment = None
    /\ using_default_config = FALSE
    /\ config = None
    /\ savefile = None
    /\ fs \in [SavePaths -> InitialEntries]
    /\ fs[AltSavefilePath] \in {Absent, FileOf(GameInProgress)}
    /\ dirs \in SUBSET ParentDirs
    /\ \A p \in SavePaths : fs[p].kind # "absent" => Parent(p) \in dirs
    /\ wordfile = <<"a", NL, LB, "b">>
    /\ random_word = None
    /\ loaded = None
    /\ status = None
    /\ fs0 = fs

\* The user starts the program: Cli::parse() (line 322).  init_logger
\* (lines 290-319) touches nothing of this state.
Invoke ==
    /\ pc = "idle"
    /\ \E c \in Clis : cli' = c
    /\ \E e \in Envs : env' = e
    /\ pc' = "main"
    /\ status' = None
    /\ fs0' = fs
    /\ NoLocals
    /\ UNCHANGED <<fs, dirs, wordfile>>

\* The process is gone; its files stay.
Terminate ==
    /\ pc = "exited"
    /\ pc' = "idle"
    /\ cli' = [config |-> None, sub |-> "show", file |-> None]
    /\ env' = None
    /\ status' = None
    /\ fs0' = fs
    /\ NoLocals
    /\ UNCHANGED <<fs, dirs, wordfile>>

\* Lines 331-372: the source of the configuration.  text is what the chosen
\* file holds.
LoadConfiguration ==
    /\ pc = "main"
    /\ \E text \in ConfigTexts :
         IF cli.config # None
         THEN /\ figment' = Some(IF verify_toml_file(fs, cli.config[1])
                                 THEN FigmentOfFile(cli.config[1], text)
                                 ELSE FigmentOfDefaults)
              /\ using_default_config' = FALSE
         ELSE IF env # None
              THEN IF verify_toml_file(fs, env[1])
                   THEN /\ figment' = Some(FigmentOfFile(env[1], text))
                        /\ using_default_config' = FALSE
                   ELSE /\ figment' = Some(FigmentOfDefaults)
                        /\ using_default_config' = TRUE
              ELSE /\ figment' = Some(FigmentOfDefaults)
                   /\ using_default_config' = TRUE
    /\ pc' = "extract"
    /\ UNCHANGED <<cli, env, config, savefile, fs, dirs, wordfile, random_word, loaded, status, fs0>>

\* Lines 374-378: extract the Config and take its savefile; a failed
\* extraction panics in expect.
ExtractConfiguration ==
    /\ pc = "extract"
    /\ config' = Some(ExtractConfig(figment[1]))
    /\ IF ExtractConfig(figment[1]).ok
       THEN /\ savefile' = Some(SavefileOf(ExtractConfig(figment[1]).val))
            /\ pc' = "ensure"
            /\ status' = None
       ELSE /\ savefile' = None
            /\ Panic("Failed to extract configuration")
    /\ UNCHANGED <<cli, env, figment, using_default_config, fs, dirs, wordfile, random_word, loaded, fs0>>

\* A faulty variant: the savefile is never created.
NeverMissing(f, p) == FALSE

\* The condition of line 381.
SavefileMissing(f, p) == ~Exists(f, p)

\* A faulty variant: the file is created and the default record not written.
CreatedEmpty(io) == IF io \in {"ok", "write_failed"} THEN EmptyFile ELSE Absent
\* What lines 383-392 leave at the savefile path when nothing was there.
Created(io) ==
    CASE io = "ok" -> FileOf(SavefileDefault)
      [] io = "write_failed" -> EmptyFile
      [] OTHER -> Absent

\* The message of the expect that fails (lines 384, 386, 392).
EnsureFailure(io) ==
    CASE io = "mkdir_failed" -> "Failed to create savefile directory"
      [] io = "create_failed" -> "Failed to create new savefile"
      [] OTHER -> "Failed to write savefile"

\* Lines 380-393: write a default savefile unless the path exists.
EnsureSavefile ==
    /\ pc = "ensure"
    /\ IF SavefileMissing(fs, savefile[1])
       THEN \E io \in IoOutcomes :
              /\ dirs' = IF io = "mkdir_failed" THEN dirs ELSE dirs \cup {Parent(savefile[1])}
              /\ fs' = [fs EXCEPT ![savefile[1]] = Created(io)]
              /\ IF io = "ok"
                 THEN pc' = "dispatch" /\ status' = None
                 ELSE Panic(EnsureFailure(io))
       ELSE /\ fs' = fs
            /\ dirs' = dirs
            /\ pc' = "dispatch"
            /\ status' = None
    /\ UNCHANGED <<cli, env, figment, using_default_config, config, savefile, wordfile,
                   random_word, loaded, fs0>>

\* Lines 395-424: the match on the subcommand.
Dispatch ==
    /\ pc = "dispatch"
    /\ pc' = cli.sub
    /\ UNCHANGED <<cli, env, figment, using_default_config, config, savefile, fs, dirs, wordfile,
                   random_word, loaded, status, fs0>>

\* The handlers that only print (lines 193-202, 271-288).
Stub(name) ==
    /\ pc = name
    /\ Return
    /\ UNCHANGED <<cli, env, figment, using_default_config, config, savefile, fs, dirs, wordfile,
                   random_word, loaded, fs0>>

handle_guess == Stub("guess")
handle_query == Stub("query")
handle_save == Stub("save")
handle_load == Stub("load")
handle_show == Stub("show")
handle_completions == Stub("completions")

-----------------------------------------------------------------------------
(* handle_new (lines 205-265) *)

\* A faulty variant: always the first line.
GenRangeFirst(len) == IF len = 0 THEN {} ELSE {1}
\* thread_rng().gen_range(0..len) (line 223), as indices from 1.
GenRange(len) == 1..len


\* Lines 209-237: the word comes from a line of the wordlist file or from
\* the remote service.  An empty range makes gen_range panic.
HandleNewChoose ==
    /\ pc = "new"
    /\ IF cli.file # None
       THEN IF ~Exists(fs, cli.file[1]) \/ IsDir(fs, cli.file[1])
            THEN /\ Exit1(IF ~Exists(fs, cli.file[1])
                           THEN "Wordlist file does not exist, exiting"
                           ELSE "Given wordlist is a directory, exiting")
                 /\ random_word' = None
            ELSE LET text == ReadWordlist(cli.file[1], wordfile)
                 IN  IF text = None \/ GenRange(Len(Lines(text[1]))) = {}
                     THEN /\ Panic(IF text = None THEN "read_to_string failed"
                                                  ELSE "cannot sample empty range")
                          /\ random_word' = None
                     ELSE /\ \E i \in GenRange(Len(Lines(text[1]))) :
                               random_word' = Some(Lines(text[1])[i])
                          /\ pc' = "new_normalize"
                          /\ status' = None
       ELSE \E r \in ApiResponses :
              IF r = None
              THEN Panic("Failed to get random word from api!") /\ random_word' = None
              ELSE /\ random_word' = r
                   /\ pc' = "new_normalize"
                   /\ status' = None
    /\ UNCHANGED <<cli, env, figment, using_default_config, config, savefile, fs, dirs, wordfile,
                   loaded, fs0>>

\* Lines 239-242.
HandleNewNormalize ==
    /\ pc = "new_normalize"
    /\ random_word' = Some(TrimMatches(random_word[1]))
    /\ pc' = "new_load"
    /\ UNCHANGED <<cli, env, figment, using_default_config, config, savefile, fs, dirs, wordfile,
                   loaded, status, fs0>>

\* Lines 244-251: load the existing savefile and set its word; a savefile
\* that does not deserialize panics in expect.
HandleNewLoad ==
    /\ pc = "new_load"
    /\ IF ExtractSavefile(fs[savefile[1]]).ok
       THEN /\ loaded' = Some([ExtractSavefile(fs[savefile[1]]).val
                                   EXCEPT !.word = random_word[1]])
            /\ pc' = "new_write"
            /\ status' = None
       ELSE Panic("Failed to load savefile") /\ loaded' = None
    /\ UNCHANGED <<cli, env, figment, using_default_config, config, savefile, fs, dirs, wordfile,
                   random_word, fs0>>

\* What lines 252-264 leave at the savefile path: File::create truncates,
\* write_all writes the new record.
Written(io, old, word, record) ==
    CASE io = "ok" -> FileOf(NewGame(word, record))
      [] io = "write_failed" -> EmptyFile
      [] OTHER -> old

\* Lines 252-264.
HandleNewWrite ==
    /\ pc = "new_write"
    /\ \E io \in IoOutcomes \ {"mkdir_failed"} :
         /\ fs' = [fs EXCEPT ![savefile[1]] = Written(io, @, random_word[1], loaded[1])]
         /\ CASE io = "ok" -> Return
              [] io = "create_failed" -> Panic("Failed to create new savefile")
              [] OTHER -> Panic("write_all failed")
    /\ UNCHANGED <<cli, env, figment, using_default_config, config, savefile, dirs, wordfile,
                   random_word, loaded, fs0>>

handle_new ==
    \/ HandleNewChoose
    \/ HandleNewNormalize
    \/ HandleNewLoad
    \/ HandleNewWrite

-----------------------------------------------------------------------------
(* Specifications *)

Next ==
    \/ Invoke
    \/ Terminate
    \/ LoadConfiguration
    \/ ExtractConfiguration
    \/ EnsureSavefile
    \/ Dispatch
    \/ handle_guess
    \/ handle_query
    \/ handle_save
    \/ handle_load
    \/ handle_show
    \/ handle_completions
    \/ handle_new

Spec == Init /\ [][Next]_vars

\* "[\"apple\"]"
AppleText == <<LB, QT, "a", "p", "p", "l", "e", QT, RB>>

\* handle_new alone, entered with the default configuration, a default
\* savefile in place and every short text as the wordlist file words.txt.
InitWord ==
    /\ pc = "new"
    /\ cli = [config |-> None, sub |-> "new", file |-> Some("words.txt")]
    /\ env = None
    /\ figment = Some(FigmentOfDefaults)
    /\ using_default_config = TRUE
    /\ config = Some(ExtractConfig(FigmentOfDefaults))
    /\ savefile = Some(DefaultSavefilePath)
    /\ fs = [p \in SavePaths |-> IF p = DefaultSavefilePath THEN FileOf(SavefileDefault) ELSE Absent]
    /\ dirs = {Parent(DefaultSavefilePath)}
    /\ wordfile \in TextsUpTo(MaxLen) \cup {AppleText}
    /\ random_word = None
    /\ loaded = None
    /\ status = None
    /\ fs0 = fs

SpecWord == InitWord /\ [][handle_new]_vars

-----------------------------------------------------------------------------
(* Properties *)

HandlerPcs == Stubs \cup {"new", "new_normalize", "new_load", "new_write"}

\* The text toml::to_string gives for the default savefile, written out.
DefaultSavefileEntry ==
    [kind |-> "file", wellformed |-> TRUE,
     doc |-> [word |-> <<<<>>>>, guessed |-> <<<<>>>>, correct |-> <<<<>>>>,
              incorrect |-> <<<<>>>>, strikes_left |-> <<8>>]]

\* The configuration file holds well-formed TOML and was loaded.
LoadedWellFormedFile ==
    /\ config # None
    /\ figment[1].provider = "Toml::file"
    /\ figment[1].wellformed

\* The file's keys merged over the compiled-in defaults.
MergedOverDefaults(doc) ==
    [wordlist |-> doc.wordlist,
     savefile |-> IF doc.savefile # None THEN doc.savefile ELSE <<DefaultSavefilePath>>,
     logfile  |-> IF doc.logfile # None THEN doc.logfile ELSE <<DefaultLogfilePath>>,
     strikes  |-> IF doc.strikes # None THEN doc.strikes[1] ELSE 8]

\* C1: for a well-formed configuration file that passed validation, the
\* extraction succeeds and the Config has the file's value for each key the
\* file sets and the compiled-in default for each key it leaves out.
C1_FileMergedOverDefaults ==
    LoadedWellFormedFile =>
        /\ config[1].ok
        /\ config[1].val = MergedOverDefaults(figment[1].doc)

ValidToml(p) == StaticKind(p) = "file" /\ p \in {"cfg.toml", "env.toml"}

\* C2: a valid --config file is the source; when --config fails validation
\* the HANGMAN_CONFIG file is the source if it is valid; the defaults are
\* the source only when neither names a valid file.
C2_FallThroughToEnvironment ==
    figment # None =>
        /\ (cli.config # None /\ ValidToml(cli.config[1]))
              => figment[1].path = cli.config
        /\ (cli.config # None /\ ~ValidToml(cli.config[1]) /\ env # None /\ ValidToml(env[1]))
              => figment[1].path = env
        /\ ((cli.config = None \/ ~ValidToml(cli.config[1])) /\ (env = None \/ ~ValidToml(env[1])))
              => figment[1].provider = "Config::default"

\* C3: with no --config and HANGMAN_CONFIG unset the extracted Config is
\* the compiled-in defaults: no wordlist, the default savefile and logfile
\* paths, strikes = 8.
C3_DefaultsWithoutSource ==
    (config # None /\ cli.config = None /\ env = None) =>
        /\ config[1].ok
        /\ config[1].val = [wordlist |-> <<>>, savefile |-> <<DefaultSavefilePath>>,
                            logfile |-> <<DefaultLogfilePath>>, strikes |-> 8]

\* C4: when main has passed lines 380-393, a savefile path where nothing
\* was found holds the default savefile and its parent directory exists,
\* and the file system is otherwise as the invocation found it; a path
\* that existed keeps its content, whatever it is.
C4_EnsureSavefile ==
    pc = "dispatch" =>
        IF fs0[savefile[1]].kind = "absent"
        THEN /\ fs = [fs0 EXCEPT ![savefile[1]] = DefaultSavefileEntry]
             /\ Parent(savefile[1]) \in dirs
        ELSE fs = fs0

C4_Witness ==
    /\ pc = "dispatch"
    /\ savefile = Some(AltSavefilePath)
    /\ fs0[AltSavefilePath].kind = "absent"
    /\ fs[AltSavefilePath] = DefaultSavefileEntry
    /\ fs0[DefaultSavefilePath] = FileOf(GameInProgress)

\* C5: after a new-game run that returns, the savefile holds the normalized
\* word, empty guessed, correct and incorrect lists and strikes_left = 8,
\* whatever the savefile held before and whatever Config.strikes is.
C5_NewGameRecord ==
    (pc = "exited" /\ cli.sub = "new" /\ status = Ended("0", "")) =>
        /\ fs[savefile[1]] =
              [kind |-> "file", wellformed |-> TRUE,
               doc |-> [word |-> <<random_word[1]>>, guessed |-> <<<<>>>>,
                        correct |-> <<<<>>>>, incorrect |-> <<<<>>>>,
                        strikes_left |-> <<8>>]]
        /\ \A p \in SavePaths \ {savefile[1]} : fs[p] = fs0[p]

C5_Witness ==
    /\ pc = "exited"
    /\ cli.sub = "new"
    /\ status = Ended("0", "")
    /\ config[1].val.strikes = 5
    /\ fs0[savefile[1]] = FileOf(GameInProgress)
    /\ random_word = Some(<<"b">>)

BadWordlist ==
    /\ cli.sub = "new"
    /\ cli.file # None
    /\ cli.file[1] \in {"missing.txt", "wordsdir"}

\* The panics of main before a handler is dispatched (lines 376-392).
MainPanics ==
    {"Failed to extract configuration", "Failed to create savefile directory",
     "Failed to create new savefile", "Failed to write savefile"}

\* C6: new-game with a wordlist path that does not exist or is a directory
\* never gets past the check of the path: the process exits with status 1,
\* and every savefile that existed before the invocation keeps its content.
C6_BadWordlistIsFatal ==
    BadWordlist =>
        /\ pc \notin {"new_normalize", "new_load", "new_write"}
        /\ pc = "exited" =>
              /\ status[1].code # "0"
              /\ status[1].msg \notin MainPanics => status[1].code = "1"
              /\ \A p \in SavePaths : fs0[p].kind # "absent" => fs[p] = fs0[p]

C6_Witness ==
    /\ pc = "exited"
    /\ cli.file = Some("wordsdir")
    /\ status = Ended("1", "Given wordlist is a directory, exiting")
    /\ fs0[savefile[1]] = FileOf(GameInProgress)
    /\ fs = fs0

Wrapping == {"[", "]", "\""}

\* out is what is left of in when wrapping characters, and nothing else,
\* are taken from its two ends until none is left there.
Normalized(in, out) ==
    /\ out # <<>> => (out[1] \notin Wrapping /\ out[Len(out)] \notin Wrapping)
    /\ \E i \in 0..Len(in) : \E j \in i..Len(in) :
          /\ out = SubSeq(in, i + 1, j)
          /\ \A k \in 1..i : in[k] \in Wrapping
          /\ \A k \in (j + 1)..Len(in) : in[k] \in Wrapping
    /\ TrimMatches(out) = out
    /\ in = AppleText => out = <<"a", "p", "p", "l", "e">>

\* C7: the normalization step (lines 239-242) takes every leading and
\* every trailing '[', ']' and '"' from the word and nothing else; the
\* result is a fixed point of the normalization, and ["apple"] gives apple.
C7_Normalization ==
    [][pc = "new_normalize" => Normalized(random_word[1], random_word'[1])]_vars

C7_Witness ==
    /\ pc = "new_load"
    /\ wordfile = AppleText
    /\ random_word = Some(<<"a", "p", "p", "l", "e">>)

\* A line of text starts at i and ends at j.
IsLineAt(text, i, j) ==
    /\ i <= j + 1
    /\ i = 1 \/ text[i - 1] = "\n"
    /\ j = Len(text) \/ text[j + 1] = "\n"
    /\ \A k \in i..j : text[k] # "\n"

LinesOf(text) ==
    {SubSeq(text, p[1], p[2]) :
        p \in {q \in (1..Len(text)) \X (0..Len(text)) : IsLineAt(text, q[1], q[2])}}

\* text is one line, with or without its line feed.
OneLine(text) ==
    /\ text # <<>>
    /\ \A k \in 1..(Len(text) - 1) : text[k] # "\n"

\* C8: with a wordlist file the chosen word is a line of the file, each
\* line of the file can be the chosen one, and a file of one line always
\* gives that line.
C8_ChosenLine ==
    /\ (pc = "new_normalize" /\ cli.file = Some("words.txt")) =>
          /\ random_word[1] \in LinesOf(wordfile)
          /\ OneLine(wordfile) =>
                random_word[1] = IF wordfile[Len(wordfile)] = "\n"
                                 THEN SubSeq(wordfile, 1, Len(wordfile) - 1)
                                 ELSE wordfile
    /\ (pc = "new" /\ cli.file = Some("words.txt")) =>
          \A w \in LinesOf(wordfile) :
              ENABLED (HandleNewChoose /\ random_word' = Some(w))

C8_Witness ==
    /\ pc = "new_normalize"
    /\ wordfile = <<"]", "\n", "a">>
    /\ random_word = Some(<<"a">>)

\* C9: a handler is entered only from the dispatch, the dispatch only after
\* lines 380-393 and those only after a successful extraction of the
\* Config; so while a handler runs the Config was extracted, the savefile
\* path exists and nothing has aborted.
C9_Ordering ==
    /\ [](pc \in HandlerPcs =>
            /\ config # None /\ config[1].ok
            /\ savefile # None /\ fs[savefile[1]].kind # "absent"
            /\ status = None)
    /\ [][/\ pc' = "extract" => pc = "main"
          /\ pc' = "ensure" => (pc = "extract" /\ config'[1].ok)
          /\ pc' = "dispatch" => pc = "ensure"
          /\ (pc' \in HandlerPcs /\ pc \notin HandlerPcs) => pc = "dispatch"]_vars

C9_Witness ==
    /\ pc = "guess"
    /\ savefile = Some(AltSavefilePath)
    /\ fs0[AltSavefilePath].kind = "absent"
    /\ fs[AltSavefilePath].kind = "file"

\* e is no file that deserializes as a Savefile.
Unparseable(e) ==
    \/ e.kind # "file"
    \/ ~e.wellformed
    \/ \E k \in DOMAIN e.doc : e.doc[k] = <<>>

\* C10: handle_new changes the file system only in its last step (lines
\* 252-264), which follows a successful load of the existing savefile; a
\* savefile that does not deserialize makes it panic and stays as it is.
C10_OnlyTheLastStepWrites ==
    [][/\ pc \in {"new", "new_normalize", "new_load"} => (fs' = fs /\ dirs' = dirs)
       /\ pc' = "new_write" => (pc = "new_load" /\ ~Unparseable(fs[savefile[1]]))
       /\ (pc = "new_load" /\ Unparseable(fs[savefile[1]])) =>
             (pc' = "exited" /\ status' = Ended("101", "Failed to load savefile"))]_vars

C10_Witness ==
    /\ pc = "exited"
    /\ cli.sub = "new"
    /\ status = Ended("101", "Failed to load savefile")
    /\ fs[savefile[1]] = NotToml
    /\ fs = fs0

=============================================================================
